---- MODULE Spec2Model ----
(***************************************************************************)
(* Git Repository File Selector (git_file_selector.py).                    *)
(*                                                                         *)
(* Four specifications over one set of definitions:                        *)
(*   ListSpec  the listing pipeline (enumerator + date filter) applied to  *)
(*             bounded repository trees, filters and date ranges;          *)
(*   SyncSpec  clone_or_update_repository applied to every kind of         *)
(*             working directory, URL and network outcome;                 *)
(*   CopySpec  copy_files_in_parallel with its worker pool interleaved,    *)
(*             called from the Download button handler of main;            *)
(*   Spec      one interactive session: each action is one run of main().  *)
(*                                                                         *)
(* Strings are sequences of one-character strings, so that substring       *)
(* tests and path splitting are computed rather than assumed.              *)
(***************************************************************************)
EXTENDS Integers, Sequences, FiniteSets, TLC

\* ------------------------------------------------------------------ bounds
\* Calendar days are 0..MaxDay.
MaxDay == 1
\* Worker threads of the pool.
MaxWorkers == 2
\* Versions a remote repository can go through: 1..MaxVer.
MaxVer == 2

\* ------------------------------------------------------------ strings, paths
SLASH == "/"

\* Python: needle in hay (substring containment).
Contains(needle, hay) ==
    \E i \in 0..(Len(hay) - Len(needle)) :
        SubSeq(hay, i + 1, i + Len(needle)) = needle

\* str.rfind('/') + 1 : the index just after the last slash, 0 if none.
RFindSlash(p) ==
    LET idx == {i \in 1..Len(p) : p[i] = SLASH}
    IN  IF idx = {} THEN 0 ELSE CHOOSE i \in idx : \A j \in idx : j <= i

RECURSIVE RStripSlash(_)
RStripSlash(p) ==
    IF Len(p) > 0 /\ p[Len(p)] = SLASH THEN RStripSlash(SubSeq(p, 1, Len(p) - 1))
    ELSE p

\* posixpath.dirname
dirname(p) ==
    LET head == SubSeq(p, 1, RFindSlash(p))
    IN  IF head # <<>> /\ \E i \in 1..Len(head) : head[i] # SLASH
        THEN RStripSlash(head)
        ELSE head

\* posixpath.basename
basename(p) == SubSeq(p, RFindSlash(p) + 1, Len(p))

\* posixpath.join(a, b)
join(a, b) ==
    IF Len(b) > 0 /\ b[1] = SLASH THEN b
    ELSE IF a = <<>> \/ a[Len(a)] = SLASH THEN a \o b
    ELSE a \o <<SLASH>> \o b

\* --------------------------------------------------------------- timestamps
SecondsPerDay == 86400

\* No commit touches the path: next(iter_commits(...)) raises StopIteration.
NoCommit == -1

\* datetime.fromtimestamp(t).strftime('%Y-%m-%d %H:%M:%S'): the text carries
\* the calendar day and the time of day.
strftime(t) ==
    [fmt |-> "%Y-%m-%d %H:%M:%S", ymd |-> t \div SecondsPerDay, hms |-> t % SecondsPerDay]

Unknown == [fmt |-> "Unknown", ymd |-> 0, hms |-> 0]

\* datetime.strptime(s, '%Y-%m-%d %H:%M:%S') raises ValueError on other text.
ParseFails(s) == s.fmt # "%Y-%m-%d %H:%M:%S"

\* datetime.strptime(s, ...).date()
strptime_date(s) == s.ymd

\* --------------------------------------------------------- repository trees
P_a   == <<"a">>
P_m   == <<"m">>
P_s   == <<"s">>
P_sl  == <<"s", "/", "l">>
P_slb == <<"s", "/", "l", "/", "b">>
P_x   == <<"s", "l">>
P_xb  == <<"s", "l", "/", "b">>

BlobPool == {P_a, P_slb, P_xb}

\* repo.tree().traverse() of the full pool: depth first, a tree before its
\* children, a submodule entry m of type "commit".
FullTraversal ==
    << [type |-> "blob",   path |-> P_a],
       [type |-> "commit", path |-> P_m],
       [type |-> "tree",   path |-> P_s],
       [type |-> "tree",   path |-> P_sl],
       [type |-> "blob",   path |-> P_slb],
       [type |-> "tree",   path |-> P_x],
       [type |-> "blob",   path |-> P_xb] >>

\* p is a proper ancestor directory of q.
IsAncestor(p, q) ==
    Len(p) < Len(q) /\ SubSeq(q, 1, Len(p)) = p /\ q[Len(p) + 1] = SLASH

RECURSIVE SelectSeq2(_, _)
SelectSeq2(s, keep) ==
    IF s = <<>> THEN <<>>
    ELSE (IF keep[Head(s).path] THEN <<Head(s)>> ELSE <<>>) \o SelectSeq2(Tail(s), keep)

\* The traversal of the tree that tracks exactly `blobs` (and the submodule
\* when `sub`): git stores no empty directories.
Traverse(blobs, sub) ==
    LET paths == {FullTraversal[i].path : i \in 1..Len(FullTraversal)}
        keep == [p \in paths |->
                    \/ p \in blobs
                    \/ (p = P_m /\ sub)
                    \/ \E b \in blobs : IsAncestor(p, b)]
    IN  SelectSeq2(FullTraversal, keep)

\* ------------------------------------------------------- listing pipeline
\* Mutant: the blob.type test is missing.
RECURSIVE list_files_AnyType(_, _, _)
list_files_AnyType(entries, commits, subdirectory_filter) ==
    IF entries = <<>> THEN <<>>
    ELSE
      LET blob == Head(entries)
          rest == list_files_AnyType(Tail(entries), commits, subdirectory_filter)
          subdirectory == dirname(blob.path)
      IN  IF subdirectory_filter # <<>> /\ ~Contains(subdirectory_filter, subdirectory)
          THEN rest
          ELSE << [Subdirectory |-> subdirectory,
                   File |-> basename(blob.path),
                   Last_Modified |-> IF blob.path \in DOMAIN commits
                                        /\ commits[blob.path] # NoCommit
                                     THEN strftime(commits[blob.path])
                                     ELSE Unknown] >> \o rest

\* list_files_with_git_dates_lazy: one record per blob that passes the
\* subdirectory filter; an empty filter (None or "") is falsy.
RECURSIVE list_files_with_git_dates_lazy(_, _, _)
list_files_with_git_dates_lazy(entries, commits, subdirectory_filter) ==
    IF entries = <<>> THEN <<>>
    ELSE
      LET blob == Head(entries)
          rest == list_files_with_git_dates_lazy(Tail(entries), commits, subdirectory_filter)
          subdirectory == dirname(blob.path)
      IN  IF blob.type # "blob" THEN rest
          ELSE IF subdirectory_filter # <<>> /\ ~Contains(subdirectory_filter, subdirectory)
          THEN rest
          ELSE << [Subdirectory |-> subdirectory,
                   File |-> basename(blob.path),
                   Last_Modified |-> IF commits[blob.path] = NoCommit
                                     THEN Unknown
                                     ELSE strftime(commits[blob.path])] >> \o rest

\* Mutant: no parse check and no upper bound.
InDateRange_Open(file_data, date_range) ==
    date_range[1] <= strptime_date(file_data.Last_Modified)

\* The date test of filter_files_on_load for one record.
InDateRange(file_data, date_range) ==
    /\ ~ParseFails(file_data.Last_Modified)
    /\ date_range[1] <= strptime_date(file_data.Last_Modified)
    /\ strptime_date(file_data.Last_Modified) <= date_range[2]

RECURSIVE FilterDates(_, _)
FilterDates(files, date_range) ==
    IF files = <<>> THEN <<>>
    ELSE (IF date_range # <<>> /\ ~InDateRange(Head(files), date_range)
          THEN <<>> ELSE <<Head(files)>>) \o FilterDates(Tail(files), date_range)

\* filter_files_on_load: an absent date range (None) is <<>>.
filter_files_on_load(entries, commits, subdirectory_filter, date_range) ==
    FilterDates(list_files_with_git_dates_lazy(entries, commits, subdirectory_filter),
                date_range)

Days == 0..MaxDay
Stamps == {d * SecondsPerDay : d \in Days} \cup {d * SecondsPerDay + (SecondsPerDay - 1) : d \in Days}
DateRanges == {<<>>} \cup (Days \X Days)
Filters == {<<>>, <<"s">>, <<"l">>, <<"s", "l">>, <<"s", "/">>, <<"b">>}

VARIABLES l_blobs, l_sub, l_commits, l_filter, l_range, l_table, l_pc

lvars == <<l_blobs, l_sub, l_commits, l_filter, l_range, l_table, l_pc>>

ListInit ==
    /\ l_blobs \in SUBSET BlobPool
    /\ l_sub \in BOOLEAN
    /\ l_commits \in [BlobPool -> Stamps \cup {NoCommit}]
    /\ \A p \in BlobPool \ l_blobs : l_commits[p] = NoCommit
    /\ l_filter \in Filters
    /\ l_range \in DateRanges
    /\ l_table = <<>>
    /\ l_pc = "start"

\* pd.DataFrame(filter_files_on_load(repo, clone_dir, filter, range))
ListFiles ==
    /\ l_pc = "start"
    /\ l_table' = filter_files_on_load(Traverse(l_blobs, l_sub), l_commits, l_filter, l_range)
    /\ l_pc' = "done"
    /\ UNCHANGED <<l_blobs, l_sub, l_commits, l_filter, l_range>>

ListNext == ListFiles



\* C7: the listing never holds a record outside the active filters. With a
\* non-empty subdirectory filter S every record has S inside its Subdirectory
\* (so root files are out); with a date range [d0, d1] every record is the
\* record of a tracked blob whose last commit falls on a day d0 <= d <= d1
\* (never Unknown); the records keep the traversal order.
FilterSafety ==
    l_pc = "done" =>
      /\ l_filter # <<>> =>
           \A i \in 1..Len(l_table) :
              /\ Contains(l_filter, l_table[i].Subdirectory)
              /\ l_table[i].Subdirectory # <<>>
      /\ l_range # <<>> =>
           \A i \in 1..Len(l_table) :
              \E p \in l_blobs :
                 /\ p = join(l_table[i].Subdirectory, l_table[i].File)
                 /\ l_commits[p] # NoCommit
                 /\ l_range[1] * SecondsPerDay <= l_commits[p]
                 /\ l_commits[p] < (l_range[2] + 1) * SecondsPerDay
                 /\ l_table[i].Last_Modified # Unknown
      /\ \A i, j \in 1..Len(l_table) :
           i < j =>
             \E m, n \in 1..Len(FullTraversal) :
                /\ m < n
                /\ FullTraversal[m].path = join(l_table[i].Subdirectory, l_table[i].File)
                /\ FullTraversal[n].path = join(l_table[j].Subdirectory, l_table[j].File)

\* A filtered listing that keeps a record on each inclusive bound of the
\* range and drops a root file, an Unknown record and a later record.
FilterSafetyWitness ==
    /\ l_pc = "done"
    /\ l_filter = <<"s">>
    /\ l_range = <<0, 1>>
    /\ l_blobs = BlobPool
    /\ l_commits[P_slb] = 0
    /\ l_commits[P_xb] = 2 * SecondsPerDay - 1
    /\ Len(l_table) = 2

\* C8: with no subdirectory filter and no date range the listing has exactly
\* one record per tracked blob, each blob once, each with a non-empty File;
\* tree and submodule entries give no record; and whenever the date range is
\* absent the filter stage passes the enumerated records through unchanged,
\* Unknown ones included.
EnumerationComplete ==
    l_pc = "done" /\ l_range = <<>> =>
      /\ l_table = list_files_with_git_dates_lazy(Traverse(l_blobs, l_sub), l_commits, l_filter)
      /\ l_filter = <<>> =>
           /\ Len(l_table) = Cardinality(l_blobs)
           /\ \A p \in l_blobs :
                \E i \in 1..Len(l_table) :
                   /\ join(l_table[i].Subdirectory, l_table[i].File) = p
                   /\ l_table[i].Last_Modified =
                        (IF l_commits[p] = NoCommit THEN Unknown ELSE strftime(l_commits[p]))
                   /\ \A j \in 1..Len(l_table) :
                        join(l_table[j].Subdirectory, l_table[j].File) = p => j = i
           /\ \A i \in 1..Len(l_table) : l_table[i].File # <<>>

EnumerationCompleteWitness ==
    /\ l_pc = "done"
    /\ l_filter = <<>>
    /\ l_range = <<>>
    /\ l_sub
    /\ l_blobs = BlobPool
    /\ l_commits[P_a] = NoCommit
    /\ Len(Traverse(l_blobs, l_sub)) = 7
    /\ Len(l_table) = 3
    /\ l_table[1].Last_Modified = Unknown


\* ------------------------------------------------------ repository access
Urls == {"", "A", "B"}
\* The URLs behind which a repository exists; cloning any other URL fails.
Remotes == {"A", "B"}
\* Remotes that receive pushes while the session runs.
Evolving == {"A"}

\* The tracked files of remote u at version v.
RepoBlobs(u, v) ==
    IF u = "A" THEN (IF v = 1 THEN {P_a, P_xb} ELSE {P_xb})
    ELSE {P_a}

\* The last commit touching each path, as repo.iter_commits(paths=p) finds it.
RepoCommits(u, v) ==
    [p \in BlobPool |->
        IF u = "A" /\ p = P_a THEN 0
        ELSE IF u = "A" /\ p = P_xb THEN SecondsPerDay + 1
        ELSE NoCommit]

\* The working directory: absent, a checkout of url at version ver, or a
\* directory that is no valid repository.
Absent == [kind |-> "absent", url |-> "", ver |-> 0]
Junk   == [kind |-> "junk", url |-> "", ver |-> 0]
Checkout(u, v) == [kind |-> "repo", url |-> u, ver |-> v]

Event(op, u) == [op |-> op, url |-> u]

\* Mutant: the directory is left in place.
remove_directory_Keep(d) == d

\* remove_directory: rmtree when the path exists.
remove_directory(d) == Absent

\* Repo.clone_from(repo_url, clone_dir): git refuses an existing non-empty
\* target; otherwise a checkout of the remote's current version, or
\* GitCommandError with nothing left behind.
clone_from(d, repo_url, rem, clone_ok) ==
    IF d.kind # "absent" THEN [dir |-> d, raised |-> TRUE]
    ELSE IF clone_ok /\ repo_url \in Remotes
    THEN [dir |-> Checkout(repo_url, rem[repo_url]), raised |-> FALSE]
    ELSE [dir |-> Absent, raised |-> TRUE]

\* Mutant: a failed pull is propagated instead of falling back to a clone.
clone_or_update_repository_NoFallback(d, repo_url, rem, pull_ok, clone_ok) ==
    IF d.kind # "absent"
    THEN IF d.kind = "repo" /\ pull_ok
         THEN [dir |-> Checkout(d.url, rem[d.url]), raised |-> FALSE,
               ops |-> <<Event("open", d.url), Event("pull", d.url)>>]
         ELSE [dir |-> d, raised |-> TRUE, ops |-> <<Event("open", d.url)>>]
    ELSE [dir |-> clone_from(d, repo_url, rem, clone_ok).dir,
          raised |-> clone_from(d, repo_url, rem, clone_ok).raised,
          ops |-> <<Event("clone", repo_url)>>]

\* clone_or_update_repository(repo_url, clone_dir) on working directory d.
\* origin.pull() pulls from the URL the directory was cloned from.
clone_or_update_repository(d, repo_url, rem, pull_ok, clone_ok) ==
    IF d.kind # "absent"
    THEN IF d.kind = "repo" /\ pull_ok
         THEN [dir |-> Checkout(d.url, rem[d.url]), raised |-> FALSE,
               ops |-> <<Event("open", d.url), Event("pull", d.url)>>]
         ELSE LET c == clone_from(remove_directory(d), repo_url, rem, clone_ok)
              IN  [dir |-> c.dir, raised |-> c.raised,
                   ops |-> <<Event("open", d.url)>>
                           \o (IF d.kind = "repo" THEN <<Event("pull", d.url)>> ELSE <<>>)
                           \o <<Event("rmtree", d.url), Event("clone", repo_url)>>]
    ELSE LET c == clone_from(d, repo_url, rem, clone_ok)
         IN  [dir |-> c.dir, raised |-> c.raised, ops |-> <<Event("clone", repo_url)>>]

\* --------------------------------------------- clone_or_update on its own
VARIABLES y_dir, y_remote, y_last, y_pc

yvars == <<y_dir, y_remote, y_last, y_pc>>

Dirs == {Absent, Junk} \cup {Checkout(u, v) : u \in Remotes, v \in 1..MaxVer}

NoSync == [before |-> Absent, url |-> "", pull_ok |-> FALSE, clone_ok |-> FALSE,
           after |-> Absent, raised |-> FALSE, ops |-> <<>>]

SyncInit ==
    /\ y_dir \in Dirs
    /\ y_remote \in [Remotes -> 1..MaxVer]
    /\ \A u \in Remotes : y_dir.kind = "repo" /\ y_dir.url = u => y_dir.ver <= y_remote[u]
    /\ y_last = NoSync
    /\ y_pc = "start"

SyncCall ==
    /\ y_pc = "start"
    /\ \E u \in Urls, pull_ok \in BOOLEAN, clone_ok \in BOOLEAN :
         LET r == clone_or_update_repository(y_dir, u, y_remote, pull_ok, clone_ok)
         IN  /\ y_dir' = r.dir
             /\ y_last' = [before |-> y_dir, url |-> u, pull_ok |-> pull_ok,
                           clone_ok |-> clone_ok, after |-> r.dir,
                           raised |-> r.raised, ops |-> r.ops]
    /\ y_pc' = "done"
    /\ UNCHANGED y_remote

SyncNext == SyncCall


Count(ops, op) == Cardinality({i \in 1..Len(ops) : ops[i].op = op})

\* C9: clone_or_update_repository(url, dir). An absent dir gets exactly one
\* fresh clone and nothing else; an existing dir is opened and pulled, and
\* when that fails it is deleted and then cloned exactly once; a failing clone
\* is propagated (never retried); a normal return leaves a valid repository.
SyncContract ==
    y_pc = "done" =>
      LET r == y_last
          cloneWorks == r.clone_ok /\ r.url \in Remotes
          updated == r.before.kind = "repo" /\ r.pull_ok
      IN  /\ Count(r.ops, "clone") <= 1
          /\ r.before.kind = "absent" => r.ops = <<Event("clone", r.url)>>
          /\ r.before.kind # "absent" => r.ops[1].op = "open"
          /\ updated =>
               /\ Count(r.ops, "clone") = 0 /\ Count(r.ops, "rmtree") = 0
               /\ ~r.raised
               /\ r.after = Checkout(r.before.url, y_remote[r.before.url])
          /\ r.before.kind # "absent" /\ ~updated =>
               /\ Count(r.ops, "clone") = 1 /\ Count(r.ops, "rmtree") = 1
               /\ r.ops[Len(r.ops)].op = "clone" /\ r.ops[Len(r.ops) - 1].op = "rmtree"
          /\ ~updated => (r.raised <=> ~cloneWorks)
          /\ ~updated /\ cloneWorks => r.after = Checkout(r.url, y_remote[r.url])
          /\ r.raised => r.after.kind = "absent"
          /\ ~r.raised => r.after.kind = "repo" /\ y_dir = r.after

\* An existing checkout of A whose pull fails is deleted and B is cloned.
SyncContractWitness ==
    /\ y_pc = "done"
    /\ y_last.before.kind = "repo" /\ y_last.before.url = "A"
    /\ y_last.url = "B"
    /\ ~y_last.pull_ok
    /\ ~y_last.raised
    /\ y_dir.kind = "repo" /\ y_dir.url = "B"
    /\ Len(y_last.ops) = 4


\* f with k mapped to v.
Put(f, k, v) == [x \in DOMAIN f \cup {k} |-> IF x = k THEN v ELSE f[x]]

\* ------------------------------------------------ copy_files_in_parallel
\* clone_dir (cwd/temp_repo) and download_dir (~/Downloads/git_files).
CloneDir == <<"/", "t">>
DownloadDir == <<"/", "d">>

\* The rows a selection is taken from: the listing of everything in the pool.
CopyTable ==
    list_files_with_git_dates_lazy(FullTraversal, [p \in BlobPool |-> NoCommit], <<>>)

Contents == {"c1", "c2"}

VARIABLES
    c_pc,       \* the UI thread: "idle", "submit", "wait", "returned"
    c_fs,       \* the files on disk: absolute path -> content
    c_dirs,     \* the directories on disk
    c_sel,      \* selected_files, in table order
    c_i,        \* the row iterrows() is at
    c_futures,  \* the futures list: one record per submitted copy
    c_before,   \* history: the files on disk when the copy was called
    c_banner    \* what main showed for the last Download click

cvars == <<c_pc, c_fs, c_dirs, c_sel, c_i, c_futures, c_before, c_banner>>

\* Mutant: the destination loses the subdirectory.
DestPath_Flat(row) == join(DownloadDir, row.File)

RelativePath(row) == join(row.Subdirectory, row.File)
SourcePath(row) == join(CloneDir, RelativePath(row))
DestPath(row) == join(DownloadDir, RelativePath(row))

\* os.makedirs(path, exist_ok=True): the path and every directory above it.
makedirs(dirs, path) ==
    dirs \cup {path}
         \cup {SubSeq(path, 1, i - 1) : i \in {j \in 2..Len(path) : path[j] = SLASH}}

Under(d, path) == IsAncestor(d, path)

RECURSIVE Rows(_, _)
Rows(table, paths) ==
    IF table = <<>> THEN <<>>
    ELSE (IF RelativePath(Head(table)) \in paths THEN <<Head(table)>> ELSE <<>>)
         \o Rows(Tail(table), paths)

CopyInit ==
    /\ c_pc = "idle"
    /\ c_fs = [p \in {join(CloneDir, b) : b \in BlobPool} |-> "c1"]
    /\ c_dirs = {CloneDir}
    /\ c_sel = <<>>
    /\ c_i = 1
    /\ c_futures = <<>>
    /\ c_before = << >>
    /\ c_banner = "none"

\* Between two downloads the checkout changes (a pull, a re-clone, a URL
\* change) while the cached listing still shows the old rows.
WorkdirChange ==
    /\ c_pc \in {"idle", "returned"}
    /\ \E b \in BlobPool :
          \/ /\ join(CloneDir, b) \in DOMAIN c_fs
             /\ c_fs' = [p \in DOMAIN c_fs \ {join(CloneDir, b)} |-> c_fs[p]]
          \/ \E c \in Contents :
                /\ (IF join(CloneDir, b) \in DOMAIN c_fs
                    THEN c_fs[join(CloneDir, b)] # c ELSE TRUE)
                /\ c_fs' = Put(c_fs, join(CloneDir, b), c)
    /\ c_pc' = "idle"
    /\ c_futures' = <<>>
    /\ c_sel' = <<>>
    /\ c_banner' = "none"
    /\ UNCHANGED <<c_dirs, c_i, c_before>>

\* main, lines 157-163 and copy_files_in_parallel, line 71: the Download
\* button with some rows ticked.
ClickDownloadSelected ==
    /\ c_pc \in {"idle", "returned"}
    /\ \E paths \in SUBSET BlobPool :
          /\ c_sel' = Rows(CopyTable, paths)
          /\ IF paths = {}
             THEN /\ c_banner' = "no_selection"
                  /\ c_pc' = "returned"
                  /\ UNCHANGED c_dirs
             ELSE /\ c_banner' = "none"
                  /\ c_pc' = "submit"
                  /\ c_dirs' = makedirs(c_dirs, DownloadDir)
    /\ c_i' = 1
    /\ c_futures' = <<>>
    /\ c_before' = c_fs
    /\ UNCHANGED c_fs

\* Lines 74-79: one turn of the loop: the paths, the destination directory,
\* executor.submit.
Submit ==
    /\ c_pc = "submit"
    /\ c_i <= Len(c_sel)
    /\ c_dirs' = makedirs(c_dirs, dirname(DestPath(c_sel[c_i])))
    /\ c_futures' = Append(c_futures, [src |-> SourcePath(c_sel[c_i]),
                                       dst |-> DestPath(c_sel[c_i]),
                                       state |-> "pending"])
    /\ c_i' = c_i + 1
    /\ UNCHANGED <<c_pc, c_fs, c_sel, c_before, c_banner>>

\* Line 80: the loop is over and the UI thread enters wait().
EnterWait ==
    /\ c_pc = "submit"
    /\ c_i > Len(c_sel)
    /\ c_pc' = "wait"
    /\ UNCHANGED <<c_fs, c_dirs, c_sel, c_i, c_futures, c_before, c_banner>>

Running(futures) == {i \in 1..Len(futures) : futures[i].state = "running"}

\* A free worker thread takes the oldest queued copy.
WorkerStart ==
    /\ Cardinality(Running(c_futures)) < MaxWorkers
    /\ \E i \in 1..Len(c_futures) :
          /\ c_futures[i].state = "pending"
          /\ \A j \in 1..(i - 1) : c_futures[j].state # "pending"
          /\ c_futures' = [c_futures EXCEPT ![i].state = "running"]
    /\ UNCHANGED <<c_pc, c_fs, c_dirs, c_sel, c_i, c_before, c_banner>>

\* shutil.copy2 in a worker: the file is written, or the exception of a
\* missing source is stored in the future.
WorkerFinish ==
    /\ \E i \in Running(c_futures) :
          IF c_futures[i].src \in DOMAIN c_fs
          THEN /\ c_fs' = Put(c_fs, c_futures[i].dst, c_fs[c_futures[i].src])
               /\ c_futures' = [c_futures EXCEPT ![i].state = "finished"]
          ELSE /\ c_futures' = [c_futures EXCEPT ![i].state = "failed"]
               /\ UNCHANGED c_fs
    /\ UNCHANGED <<c_pc, c_dirs, c_sel, c_i, c_before, c_banner>>

\* Mutant: wait(futures, return_when=FIRST_EXCEPTION).
WaitReturns_FirstException(futures) ==
    \/ \A i \in 1..Len(futures) : futures[i].state \in {"finished", "failed"}
    \/ \E i \in 1..Len(futures) : futures[i].state = "failed"

\* concurrent.futures.wait(futures) with the default ALL_COMPLETED.
WaitReturns(futures) ==
    \A i \in 1..Len(futures) : futures[i].state \in {"finished", "failed"}

\* What copy_files_in_parallel raises when wait() has returned: nothing,
\* since no future's result() or exception() is ever asked for.
CopyRaises(futures) == FALSE

\* Line 80 and main, lines 163-166: wait() returns, the executor shuts down,
\* and main shows the outcome.
Return ==
    /\ c_pc = "wait"
    /\ WaitReturns(c_futures)
    /\ c_banner' = IF CopyRaises(c_futures) THEN "download_failed" ELSE "downloaded"
    /\ c_pc' = "returned"
    /\ UNCHANGED <<c_fs, c_dirs, c_sel, c_i, c_futures, c_before>>

\* ------------------------------------------------------------ the session
\* Entries the listing cache may hold in a checked run (st.cache_data itself
\* never evicts).
MaxCacheEntries == 3

VARIABLES
    repo_url,       \* the text input's value in the last run
    last_repo_url,  \* st.session_state.last_repo_url
    files_loaded,   \* st.session_state.files_loaded
    dir,            \* the working directory temp_repo on disk
    remote,         \* the current version of every remote repository
    cache,          \* st.cache_data of get_filtered_files: key -> table
    first,          \* history: the table each key's first completed call returned
    banner,         \* the last st.error / st.success of the last run
    escaped,        \* the exception that left main in the last run, or "none"
    listed,         \* what main found at Repo(clone_dir) in the last run
    ops,            \* repository and filesystem operations of the last run
    calls,          \* the get_filtered_files calls of the last run
    shown           \* the Download button was rendered in the last run

svars == <<repo_url, last_repo_url, files_loaded, dir, remote, cache, first,
           banner, escaped, listed, ops, calls, shown>>

\* The traversal of every remote at every version, computed once.
TreeTable == [u \in Remotes |-> [v \in 1..MaxVer |-> Traverse(RepoBlobs(u, v), FALSE)]]

RepoTree(d) == TreeTable[d.url][d.ver]

Key(u, sub, range) == <<u, sub, range>>

\* Mutant: the cache hands out the stored table itself (st.cache_resource),
\* so the caller's edits are edits of the entry.
CacheAfterCallerEdit_Shared(c, k, edited) == [c EXCEPT ![k] = edited]

\* st.cache_data hands every caller its own copy of the stored table: what
\* the caller then does to the table never reaches the cache.
CacheAfterCallerEdit(c, k, edited) == c

\* get_filtered_files under st.cache_data, keyed by all four arguments
\* (clone_dir is the same in every call).
get_filtered_files(c, d, url, subdirectory_filter, date_range, net) ==
    LET k == Key(url, subdirectory_filter, date_range)
    IN  IF k \in DOMAIN c
        THEN [cache |-> c, dir |-> d, table |-> c[k], raised |-> FALSE,
              key |-> k, ops |-> <<>>]
        ELSE LET r == clone_or_update_repository(d, url, remote, net.pull, net.clone)
                 t == filter_files_on_load(RepoTree(r.dir), RepoCommits(r.dir.url, r.dir.ver),
                                           subdirectory_filter, date_range)
             IN  IF r.raised
                 THEN [cache |-> c, dir |-> r.dir, table |-> <<>>, raised |-> TRUE,
                       key |-> k, ops |-> r.ops]
                 ELSE [cache |-> Put(c, k, t), dir |-> r.dir, table |-> t, raised |-> FALSE,
                       key |-> k, ops |-> r.ops \o <<Event("traverse", r.dir.url)>>]

\* pd.to_datetime(column, errors='coerce').dt.date on one record.
NaT == [fmt |-> "NaT", ymd |-> 0, hms |-> 0]
ToDate(rec) ==
    [rec EXCEPT !.Last_Modified =
        IF ParseFails(@) THEN NaT ELSE [fmt |-> "date", ymd |-> strptime_date(@), hms |-> 0]]

MapSeq(Op(_), t) == [i \in 1..Len(t) |-> Op(t[i])]

AddSelect(rec) ==
    [Subdirectory |-> rec.Subdirectory, File |-> rec.File,
     Last_Modified |-> rec.Last_Modified, Select |-> FALSE]

SetMin(S) == CHOOSE x \in S : \A y \in S : x <= y
SetMax(S) == CHOOSE x \in S : \A y \in S : y <= x

\* The network as one synchronisation meets it.
Net == {[pull |-> TRUE, clone |-> TRUE], [pull |-> FALSE, clone |-> TRUE],
        [pull |-> FALSE, clone |-> FALSE]}

\* What one run of main receives: the widget values and button states, and
\* the network's answers to the synchronisations the run may perform.
Input(url, clone, download, sub, dates, sel, net1, net2, net3) ==
    [url |-> url, clone |-> clone, download |-> download, sub |-> sub,
     d0 |-> dates[1], d1 |-> dates[2], sel |-> sel,
     net1 |-> net1, net2 |-> net2, net3 |-> net3]

Down == [pull |-> FALSE, clone |-> FALSE]
SubChoices == {<<>>, P_x}
DateChoices == {<<0, 0>>, <<0, 1>>, <<1, 1>>}
SelChoices == SUBSET {P_a, P_xb}

\* The record of one get_filtered_files call; `again` tells that the same
\* arguments had completed a call before.
CallRec(r, seen) ==
    [key |-> r.key, again |-> r.key \in DOMAIN seen, raised |-> r.raised,
     ops |-> r.ops, table |-> r.table]

Remember(seen, r) ==
    IF r.raised \/ r.key \in DOMAIN seen THEN seen ELSE Put(seen, r.key, r.table)

\* copy_files_in_parallel as main sees it: wait() returns the finished
\* futures and never re-raises what a worker raised (see CopySpec).
copy_raises(selected, d) == FALSE

\* main, lines 97-101: a changed URL resets the session and deletes the
\* working directory.
UrlSync(s, in) ==
    IF in.url # s.last_repo_url
    THEN [s EXCEPT !.last_repo_url = in.url,
                   !.files_loaded = FALSE,
                   !.dir = IF s.dir.kind # "absent" THEN remove_directory(s.dir) ELSE s.dir,
                   !.ops = IF s.dir.kind # "absent"
                           THEN Append(@, Event("rmtree", s.dir.url)) ELSE @]
    ELSE s

\* main, lines 103-114: the Clone Repository button. `returned` tells that
\* main returned at line 114.
CloneButton(s, in) ==
    IF ~in.clone THEN [s EXCEPT !.returned = FALSE]
    ELSE IF in.url = "" THEN [s EXCEPT !.banner = "need_url", !.returned = FALSE]
    ELSE LET r == clone_or_update_repository(s.dir, in.url, remote, in.net1.pull, in.net1.clone)
         IN  IF r.raised
             THEN [s EXCEPT !.dir = r.dir, !.ops = @ \o r.ops,
                            !.banner = "clone_failed", !.returned = TRUE]
             ELSE [s EXCEPT !.dir = r.dir, !.ops = @ \o r.ops,
                            !.banner = "cloned", !.files_loaded = TRUE,
                            !.returned = FALSE]

\* main, lines 147-166: the table, its Select column and the Download button.
Table(s, in, filtered, key) ==
    IF filtered = <<>> THEN s
    ELSE
      LET edited == MapSeq(AddSelect, filtered)
          s1 == [s EXCEPT !.cache = CacheAfterCallerEdit(@, key, edited), !.shown = TRUE]
          selected == {i \in 1..Len(edited) :
                          join(edited[i].Subdirectory, edited[i].File) \in in.sel}
      IN  IF ~in.download THEN s1
          ELSE IF selected = {} THEN [s1 EXCEPT !.banner = "no_selection"]
          ELSE IF copy_raises(selected, s1.dir) THEN [s1 EXCEPT !.banner = "download_failed"]
          ELSE [s1 EXCEPT !.banner = "downloaded"]

\* The session after a get_filtered_files call r has come back.
AfterCall(s, r) ==
    [s EXCEPT !.cache = r.cache, !.dir = r.dir, !.ops = @ \o r.ops,
              !.calls = Append(@, CallRec(r, s.first)),
              !.first = Remember(@, r)]

Escape(s, exception) == [s EXCEPT !.escaped = exception]

\* main, lines 145-166: the second call, with the date range.
Ranged(s, in, r) ==
    IF r.raised THEN Escape(AfterCall(s, r), "GitCommandError")
    ELSE Table(AfterCall(s, r), in, r.table, r.key)

\* main, lines 141-145: the date pickers, bounded by the dates present.
DateInputs(s, in, subdir_filter, key, dated, unique_dates) ==
    IF unique_dates = {} THEN Table(s, in, dated, key)
    ELSE
      LET lo == SetMin(unique_dates)
          hi == SetMax(unique_dates)
          start_date == IF in.d0 \in lo..hi THEN in.d0 ELSE lo
          end_date == IF in.d1 \in start_date..hi THEN in.d1 ELSE hi
      IN  Ranged(s, in, get_filtered_files(s.cache, s.dir, in.url, subdir_filter,
                                           <<start_date, end_date>>, in.net3))

\* main, lines 137-139: the Last Modified column rewritten as dates.
Dated(s, in, subdir_filter, key, dated) ==
    DateInputs(IF dated = <<>> THEN s
               ELSE [s EXCEPT !.cache = CacheAfterCallerEdit(@, key, dated)],
               in, subdir_filter, key, dated,
               {dated[i].Last_Modified.ymd :
                   i \in {j \in 1..Len(dated) : dated[j].Last_Modified # NaT}})

\* main, line 135: the first call, without a date range.
Unranged(s, in, subdir_filter, r) ==
    IF r.raised THEN Escape(AfterCall(s, r), "GitCommandError")
    ELSE Dated(AfterCall(s, r), in, subdir_filter, r.key, MapSeq(ToDate, r.table))

\* main, lines 121-135: the subdirectory selector over the tree's directories.
Selector(s, in, unique_dirs) ==
    Unranged(s, in, IF in.sub \in unique_dirs THEN in.sub ELSE <<>>,
             get_filtered_files(s.cache, s.dir, in.url,
                                IF in.sub \in unique_dirs THEN in.sub ELSE <<>>,
                                <<>>, in.net2))

TreePaths(tree) == {tree[i].path : i \in {j \in 1..Len(tree) : tree[j].type = "tree"}}

\* main, lines 117-169: the file listing. Only InvalidGitRepositoryError is
\* caught; NoSuchPathError (no directory) and GitCommandError (a failed
\* clone inside get_filtered_files) leave main.
Listing(s, in) ==
    IF s.returned \/ ~s.files_loaded THEN s
    ELSE IF s.dir.kind = "absent"
    THEN [s EXCEPT !.listed = "absent", !.escaped = "NoSuchPathError"]
    ELSE IF s.dir.kind = "junk"
    THEN [s EXCEPT !.listed = "junk", !.banner = "load_failed"]
    ELSE Selector([s EXCEPT !.listed = "repo",
                            !.ops = Append(@, Event("traverse", s.dir.url))],
                  in, TreePaths(RepoTree(s.dir)))

\* One run of main() from top to bottom.
main(in) ==
    LET s == [last_repo_url |-> last_repo_url, files_loaded |-> files_loaded,
              dir |-> dir, cache |-> cache, first |-> first,
              banner |-> "none", escaped |-> "none", listed |-> "skipped",
              ops |-> <<>>, calls |-> <<>>, shown |-> FALSE, returned |-> FALSE]
    IN  Listing(CloneButton(UrlSync(s, in), in), in)

Run(in) ==
    \E s \in {main(in)} :
        /\ Cardinality(DOMAIN s.cache) <= MaxCacheEntries
        /\ repo_url' = in.url
        /\ last_repo_url' = s.last_repo_url
        /\ files_loaded' = s.files_loaded
        /\ dir' = s.dir
        /\ cache' = s.cache
        /\ first' = s.first
        /\ banner' = s.banner
        /\ escaped' = s.escaped
        /\ listed' = s.listed
        /\ ops' = s.ops
        /\ calls' = s.calls
        /\ shown' = s.shown
        /\ UNCHANGED <<remote, lvars, yvars, cvars>>

\* The session after main's first run, the URL field still empty: fresh
\* session state, and the working directory as the session finds it: none,
\* the checkout an earlier session left in temp_repo, or a damaged one.
SessInit ==
    /\ repo_url = ""
    /\ last_repo_url = ""
    /\ files_loaded = FALSE
    /\ remote = [u \in Remotes |-> 1]
    /\ dir \in {Absent, Junk} \cup {Checkout(u, 1) : u \in Remotes}
    /\ cache = << >>
    /\ first = << >>
    /\ banner = "none"
    /\ escaped = "none"
    /\ listed = "skipped"
    /\ ops = <<>>
    /\ calls = <<>>
    /\ shown = FALSE

\* A widget keeps its value from run to run while it is rendered: the
\* subdirectory selector and the date pickers as the last run left them, or
\* their defaults ("All", the whole range) when the last run rendered none.
DefaultDates == <<0, 1>>
LastSub == IF Len(calls) >= 1 THEN calls[1].key[2] ELSE <<>>
LastDates == IF Len(calls) = 2 THEN calls[2].key[3] ELSE DefaultDates

\* The user edits the URL field: a rerun with the new text, no button.
EditUrl ==
    \E u \in Urls \ {repo_url} :
       Run(Input(u, FALSE, FALSE, LastSub, LastDates, {}, Down, Down, Down))

\* The user clicks Clone Repository.
ClickClone ==
    \E net1 \in Net, net2 \in Net, net3 \in Net :
       Run(Input(repo_url, TRUE, FALSE, LastSub, LastDates, {}, net1, net2, net3))

\* The user types a URL and clicks Clone Repository at once: one rerun
\* carries both the new text and the click.
EditUrlAndClone ==
    \E u \in Urls \ {repo_url}, net1 \in Net, net2 \in Net, net3 \in Net :
       Run(Input(u, TRUE, FALSE, LastSub, LastDates, {}, net1, net2, net3))

\* The user changes the subdirectory, a date or a checkbox, or asks for a
\* rerun: a run with no button pressed.
ChangeSelection ==
    \E sub \in (IF listed = "repo" THEN SubChoices ELSE {<<>>}),
       dates \in (IF listed = "repo" THEN DateChoices ELSE {DefaultDates}),
       net2 \in Net, net3 \in Net :
       Run(Input(repo_url, FALSE, FALSE, sub, dates, {}, Down, net2, net3))

\* The user clicks Download Selected Files, rendered by the last run, with
\* some rows ticked.
ClickDownload ==
    /\ shown
    /\ \E sel \in SelChoices, net2 \in Net, net3 \in Net :
          Run(Input(repo_url, FALSE, TRUE, LastSub, LastDates, sel, Down, net2, net3))

\* Somebody pushes to a remote repository.
RemotePush ==
    /\ \E u \in Evolving :
          /\ remote[u] < MaxVer
          /\ remote' = [remote EXCEPT ![u] = @ + 1]
    /\ UNCHANGED <<repo_url, last_repo_url, files_loaded, dir, cache, first,
                   banner, escaped, listed, ops, calls, shown, lvars, yvars, cvars>>


\* --------------------------------------------------------- specifications
vars == <<lvars, yvars, svars, cvars>>

\* The listing pipeline on its own: the other parts stay idle.
ListSpecInit ==
    /\ ListInit
    /\ y_dir = Absent /\ y_remote = << >> /\ y_last = NoSync /\ y_pc = "off"
    /\ repo_url = "" /\ last_repo_url = "" /\ files_loaded = FALSE
    /\ remote = << >> /\ dir = Absent /\ cache = << >> /\ first = << >>
    /\ banner = "none" /\ escaped = "none" /\ listed = "skipped"
    /\ ops = <<>> /\ calls = <<>> /\ shown = FALSE
    /\ c_pc = "off" /\ c_fs = << >> /\ c_dirs = {} /\ c_sel = <<>> /\ c_i = 1
    /\ c_futures = <<>> /\ c_before = << >> /\ c_banner = "none"

ListSpecNext == ListNext /\ UNCHANGED <<yvars, svars, cvars>>

ListSpec == ListSpecInit /\ [][ListSpecNext]_vars

\* clone_or_update_repository on its own.
SyncSpecInit ==
    /\ SyncInit
    /\ l_blobs = {} /\ l_sub = FALSE /\ l_commits = << >> /\ l_filter = <<>>
    /\ l_range = <<>> /\ l_table = <<>> /\ l_pc = "off"
    /\ repo_url = "" /\ last_repo_url = "" /\ files_loaded = FALSE
    /\ remote = << >> /\ dir = Absent /\ cache = << >> /\ first = << >>
    /\ banner = "none" /\ escaped = "none" /\ listed = "skipped"
    /\ ops = <<>> /\ calls = <<>> /\ shown = FALSE
    /\ c_pc = "off" /\ c_fs = << >> /\ c_dirs = {} /\ c_sel = <<>> /\ c_i = 1
    /\ c_futures = <<>> /\ c_before = << >> /\ c_banner = "none"

SyncSpecNext == SyncNext /\ UNCHANGED <<lvars, svars, cvars>>

SyncSpec == SyncSpecInit /\ [][SyncSpecNext]_vars

\* The interactive session.
Init ==
    /\ SessInit
    /\ l_blobs = {} /\ l_sub = FALSE /\ l_commits = << >> /\ l_filter = <<>>
    /\ l_range = <<>> /\ l_table = <<>> /\ l_pc = "off"
    /\ y_dir = Absent /\ y_remote = << >> /\ y_last = NoSync /\ y_pc = "off"
    /\ c_pc = "off" /\ c_fs = << >> /\ c_dirs = {} /\ c_sel = <<>> /\ c_i = 1
    /\ c_futures = <<>> /\ c_before = << >> /\ c_banner = "none"

Next == EditUrl \/ ClickClone \/ EditUrlAndClone \/ ChangeSelection \/ ClickDownload \/ RemotePush

Spec == Init /\ [][Next]_vars


\* The Download handler with the worker pool interleaved.
CopySpecInit ==
    /\ CopyInit
    /\ l_blobs = {} /\ l_sub = FALSE /\ l_commits = << >> /\ l_filter = <<>>
    /\ l_range = <<>> /\ l_table = <<>> /\ l_pc = "off"
    /\ y_dir = Absent /\ y_remote = << >> /\ y_last = NoSync /\ y_pc = "off"
    /\ repo_url = "" /\ last_repo_url = "" /\ files_loaded = FALSE
    /\ remote = << >> /\ dir = Absent /\ cache = << >> /\ first = << >>
    /\ banner = "none" /\ escaped = "none" /\ listed = "skipped"
    /\ ops = <<>> /\ calls = <<>> /\ shown = FALSE

CopySpecNext ==
    \/ WorkdirChange /\ UNCHANGED <<lvars, yvars, svars>>
    \/ ClickDownloadSelected /\ UNCHANGED <<lvars, yvars, svars>>
    \/ Submit /\ UNCHANGED <<lvars, yvars, svars>>
    \/ EnterWait /\ UNCHANGED <<lvars, yvars, svars>>
    \/ WorkerStart /\ UNCHANGED <<lvars, yvars, svars>>
    \/ WorkerFinish /\ UNCHANGED <<lvars, yvars, svars>>
    \/ Return /\ UNCHANGED <<lvars, yvars, svars>>

CopySpec == CopySpecInit /\ [][CopySpecNext]_vars


\* ------------------------------------------------------------- the claims
DestFiles(fs) == {p \in DOMAIN fs : Under(DownloadDir, p)}

AllSourcesPresent ==
    \A i \in 1..Len(c_sel) : SourcePath(c_sel[i]) \in DOMAIN c_before

\* C1: whenever at least one individual copy failed, copy_files_in_parallel
\* ends in failure and main shows the download-failed message.
CopyFailureReported ==
    (c_pc = "returned" /\ \E i \in 1..Len(c_futures) : c_futures[i].state = "failed")
        => c_banner = "download_failed"

\* C2: when copy_files_in_parallel returns, every selected row was
\* dispatched, every dispatched copy has completed or failed (a failed copy
\* cancels none), exactly the copies of missing sources failed, and every
\* row whose source was readable has its file at the destination path.
CopiesAllSettled ==
    (c_pc = "returned" /\ c_sel # <<>>) =>
      /\ Len(c_futures) = Len(c_sel)
      /\ \A i \in 1..Len(c_futures) :
            /\ c_futures[i].state \in {"finished", "failed"}
            /\ c_futures[i].state = "failed" <=> SourcePath(c_sel[i]) \notin DOMAIN c_before
      /\ \A i \in 1..Len(c_sel) :
            SourcePath(c_sel[i]) \in DOMAIN c_before =>
               /\ DestPath(c_sel[i]) \in DOMAIN c_fs
               /\ c_fs[DestPath(c_sel[i])] = c_before[SourcePath(c_sel[i])]

\* Three rows selected, one source missing: one copy failed, two files arrived.
CopiesAllSettledWitness ==
    /\ c_pc = "returned"
    /\ Len(c_sel) = 3
    /\ c_futures[1].state = "failed"
    /\ c_futures[2].state = "finished"
    /\ c_futures[3].state = "finished"
    /\ c_fs[DestPath(c_sel[3])] = "c2"

\* C3 as stated: with K distinct rows whose sources all exist, after the
\* return exactly K files exist under the destination directory, each
\* identical to its source, in an existing subdirectory; no two workers
\* write one path.
CopyExactlyK ==
    /\ \A i, j \in Running(c_futures) : i # j => c_futures[i].dst # c_futures[j].dst
    /\ (c_pc = "returned" /\ c_sel # <<>> /\ AllSourcesPresent) =>
         /\ Cardinality(DestFiles(c_fs)) = Len(c_sel)
         /\ \A i \in 1..Len(c_sel) :
               /\ DestPath(c_sel[i]) \in DOMAIN c_fs
               /\ c_fs[DestPath(c_sel[i])] = c_fs[SourcePath(c_sel[i])]
               /\ dirname(DestPath(c_sel[i])) \in c_dirs

\* C3 amended: the K files are at their K distinct destination paths,
\* identical to their sources, every destination subdirectory exists, and
\* the files under the destination directory are those K together with the
\* files earlier downloads left there; no two workers write one path.
CopyComplete ==
    /\ \A i, j \in Running(c_futures) : i # j => c_futures[i].dst # c_futures[j].dst
    /\ (c_pc = "returned" /\ c_sel # <<>> /\ AllSourcesPresent) =>
         /\ Cardinality({DestPath(c_sel[i]) : i \in 1..Len(c_sel)}) = Len(c_sel)
         /\ DestFiles(c_fs) = DestFiles(c_before) \cup {DestPath(c_sel[i]) : i \in 1..Len(c_sel)}
         /\ \A p \in DestFiles(c_before) \ {DestPath(c_sel[i]) : i \in 1..Len(c_sel)} :
               c_fs[p] = c_before[p]
         /\ \A p \in DOMAIN c_before \ DestFiles(c_before) :
               p \in DOMAIN c_fs /\ c_fs[p] = c_before[p]
         /\ \A i \in 1..Len(c_sel) :
               /\ DestPath(c_sel[i]) \in DOMAIN c_fs
               /\ c_fs[DestPath(c_sel[i])] = c_fs[SourcePath(c_sel[i])]
               /\ dirname(DestPath(c_sel[i])) \in c_dirs
               /\ \A k \in 2..Len(DestPath(c_sel[i])) :
                     DestPath(c_sel[i])[k] = SLASH =>
                        SubSeq(DestPath(c_sel[i]), 1, k - 1) \in c_dirs

\* Two rows in two subdirectories copied over an older copy, while a file of
\* an earlier download stays beside them.
CopyCompleteWitness ==
    /\ c_pc = "returned"
    /\ Len(c_sel) = 2
    /\ AllSourcesPresent
    /\ RelativePath(c_sel[1]) = P_slb
    /\ RelativePath(c_sel[2]) = P_xb
    /\ join(DownloadDir, P_a) \in DOMAIN c_before
    /\ join(DownloadDir, P_xb) \in DOMAIN c_before
    /\ c_before[join(DownloadDir, P_xb)] = "c1"
    /\ c_fs[join(DownloadDir, P_xb)] = "c2"
    /\ Cardinality(DestFiles(c_fs)) = 3

\* C4: no exception ever escapes main.
NoExceptionEscapesMain == escaped = "none"

\* C10: whenever main opens the repository for the listing (files_loaded is
\* true) the working directory holds a valid repository, and a failed Clone
\* Repository action never leaves files_loaded true with the directory gone.
LoadedImpliesRepository ==
    /\ listed \in {"skipped", "repo"}
    /\ banner = "clone_failed" => ~(files_loaded /\ dir.kind = "absent")

UsesRepository(e) == e.op \in {"open", "pull", "clone", "traverse"}

\* C5 as stated: the working directory, whenever it is a repository, is a
\* clone of last_repo_url, and nothing is opened, pulled, cloned or listed
\* for another URL.
WorkdirIsLastUrl ==
    /\ dir.kind = "repo" => dir.url = last_repo_url
    /\ \A i \in 1..Len(ops) : UsesRepository(ops[i]) => ops[i].url = last_repo_url

\* C5 amended: once the session has requested a URL (last_repo_url is not
\* empty) the working directory, whenever it is a repository, is a clone of
\* last_repo_url; a checkout found at the session's start or made for an
\* earlier URL is never opened, pulled or listed: every repository
\* operation of a run is on the requested URL.
WorkdirIsRequestedUrl ==
    /\ (last_repo_url # "" /\ dir.kind = "repo") => dir.url = last_repo_url
    /\ \A i \in 1..Len(ops) : UsesRepository(ops[i]) => ops[i].url = last_repo_url
    /\ repo_url = last_repo_url

\* B is checked out and listed after A had been cloned and listed earlier in
\* the session.
WorkdirIsRequestedUrlWitness ==
    /\ last_repo_url = "B"
    /\ dir = Checkout("B", 1)
    /\ listed = "repo"
    /\ \E k \in DOMAIN cache : k[1] = "A"
    /\ \E k \in DOMAIN cache : k[1] = "B"

\* C6 as stated: a call whose arguments completed a call before returns the
\* first call's table and touches neither repository nor filesystem; any
\* other call creates an entry; entries are never evicted or changed.
CacheIdempotentAlwaysStores ==
    /\ \A i \in 1..Len(calls) :
          /\ calls[i].again =>
                /\ ~calls[i].raised
                /\ calls[i].ops = <<>>
                /\ calls[i].table = first[calls[i].key]
          /\ ~calls[i].again => calls[i].key \in DOMAIN cache
    /\ \A k \in DOMAIN first : k \in DOMAIN cache /\ cache[k] = first[k]

\* C6 amended: as stated, except that only a call that completes creates an
\* entry: a first call that raises (its clone failed) stores nothing.
CacheIdempotent ==
    /\ \A i \in 1..Len(calls) :
          /\ calls[i].again =>
                /\ ~calls[i].raised
                /\ calls[i].ops = <<>>
                /\ calls[i].table = first[calls[i].key]
          /\ (~calls[i].again /\ ~calls[i].raised) =>
                /\ calls[i].key \in DOMAIN cache
                /\ cache[calls[i].key] = calls[i].table
                /\ calls[i].ops # <<>>
          /\ (~calls[i].again /\ calls[i].raised) => calls[i].key \notin DOMAIN cache
    /\ \A k \in DOMAIN first : k \in DOMAIN cache /\ cache[k] = first[k]

\* A repeated call answered from the cache although the checkout has moved
\* on: the table differs from what a fresh listing would give, and entries
\* of another URL sit beside it.
CacheIdempotentWitness ==
    /\ Len(calls) >= 1
    /\ calls[1].again
    /\ calls[1].key[1] = "A"
    /\ calls[1].table # <<>>
    /\ dir.kind = "repo"
    /\ calls[1].table # filter_files_on_load(RepoTree(dir), RepoCommits(dir.url, dir.ver),
                                             calls[1].key[2], calls[1].key[3])
    /\ \E k \in DOMAIN cache : k[1] = "B"

====
